---------------------------- MODULE Spec2Model ----------------------------
(***************************************************************************)
(* A model of frontend/src/services/api.js: seven async functions, each    *)
(* building a URL with a template literal and handing it to axios.  The    *)
(* state is what a caller and the host can observe: the promises returned  *)
(* to callers, the promises axios returned, the requests put on the        *)
(* network, the microtask queue of the event loop, and the browser side    *)
(* effects of downloadRomApi (object URLs created, saves triggered).       *)
(***************************************************************************)
EXTENDS Integers, Sequences, FiniteSets, TLC

VARIABLES
    calls,        \* one record per invocation of an exported function
    network,      \* the HTTP requests handed to axios, in order
    axiosP,       \* axiosP[c]: the promise axios returned to call c
    outerP,       \* outerP[c]: the promise the async function returned
    microtasks,   \* the event loop's queue of promise reaction jobs
    arrivals,     \* the calls whose transport settled, in settling order
    saves,        \* the <a download> clicks, in order
    objectURLs,   \* the object URLs created and not revoked
    unhandled     \* rejections that reached no handler

vars == <<calls, network, axiosP, outerP, microtasks, arrivals, saves,
          objectURLs, unhandled>>

---------------------------------------------------------------------------
(* Bounds of the model. *)

MaxCalls == 2

MaxWideCalls == 1

---------------------------------------------------------------------------
(* JavaScript values, as far as the functions read them. *)

Undefined == [t |-> "undefined", b |-> FALSE, n |-> 0, s |-> "", a |-> <<>>]

Null == [t |-> "null", b |-> FALSE, n |-> 0, s |-> "", a |-> <<>>]

Bool(x) == [t |-> "boolean", b |-> x, n |-> 0, s |-> "", a |-> <<>>]

Num(k) == [t |-> "number", b |-> FALSE, n |-> k, s |-> "", a |-> <<>>]

Str(x) == [t |-> "string", b |-> FALSE, n |-> 0, s |-> x, a |-> <<>>]

Arr(xs) == [t |-> "array", b |-> FALSE, n |-> 0, s |-> "", a |-> xs]

Digit(d) ==
    CASE d = 0 -> "0" [] d = 1 -> "1" [] d = 2 -> "2" [] d = 3 -> "3"
      [] d = 4 -> "4" [] d = 5 -> "5" [] d = 6 -> "6" [] d = 7 -> "7"
      [] d = 8 -> "8" [] d = 9 -> "9"

RECURSIVE NatToStr(_)
NatToStr(k) == IF k < 10 THEN Digit(k) ELSE NatToStr(k \div 10) \o Digit(k % 10)

NumToStr(k) == IF k < 0 THEN "-" \o NatToStr(0 - k) ELSE NatToStr(k)

RECURSIVE Join(_)
Join(xs) ==
    IF xs = <<>> THEN ""
    ELSE IF Len(xs) = 1 THEN Head(xs)
    ELSE Head(xs) \o "," \o Join(Tail(xs))

(* What `${v}` puts in a template literal. *)
ToStr(v) ==
    CASE v.t = "undefined" -> "undefined"
      [] v.t = "null"      -> "null"
      [] v.t = "boolean"   -> (IF v.b THEN "true" ELSE "false")
      [] v.t = "number"    -> NumToStr(v.n)
      [] v.t = "string"    -> v.s
      [] v.t = "array"     -> Join(v.a)

(* What `v || w` tests. *)
Truthy(v) ==
    CASE v.t = "undefined" -> FALSE
      [] v.t = "null"      -> FALSE
      [] v.t = "boolean"   -> v.b
      [] v.t = "number"    -> v.n # 0
      [] v.t = "string"    -> v.s # ""
      [] v.t = "array"     -> TRUE

Or(v, w) == IF Truthy(v) THEN v ELSE w

DefaultFalsy(v, d) == IF Truthy(v) THEN v ELSE d

(* A destructuring default: `{cursor = ""}` takes the default for undefined. *)
Default(v, d) == IF v.t = "undefined" THEN d ELSE v

DefaultSize == 60

Rom(slug, id, name, files) ==
    [p_slug |-> slug, id |-> id, r_name |-> name, files |-> files]

NoRom == Rom(Undefined, Undefined, Undefined, Undefined)

---------------------------------------------------------------------------
(* The requests the functions build. *)

NoBody == [k |-> "", v |-> NoRom]

Request(method, url, body, responseType) ==
    [method |-> method, url |-> url, body |-> body,
     responseType |-> responseType]

fetchPlatformsRequest == Request("GET", "/api/platforms", NoBody, "json")

fetchRomsRequest(options) ==
    Request("GET",
            "/api/platforms/" \o ToStr(options.platform)
              \o "/roms?cursor=" \o ToStr(Default(options.cursor, Str("")))
              \o "&size=" \o ToStr(Default(options.size, Num(DefaultSize)))
              \o "&search_term=" \o ToStr(Default(options.searchTerm, Str(""))),
            NoBody, "json")

fetchRomRequest(platform, rom) ==
    Request("GET",
            "/api/platforms/" \o ToStr(platform) \o "/roms/" \o ToStr(rom),
            NoBody, "json")

downloadRomRequest(rom, files) ==
    Request("GET",
            "/api/platforms/" \o ToStr(rom.p_slug) \o "/roms/" \o ToStr(rom.id)
              \o "/download?files=" \o ToStr(Or(files, rom.files)),
            NoBody, "blob")

updateRomRequest(rom, updatedRom) ==
    Request("PATCH",
            "/api/platforms/" \o ToStr(rom.p_slug) \o "/roms/" \o ToStr(rom.id),
            [k |-> "updatedRom", v |-> updatedRom], "json")

deleteRomRequestNoFlag(rom, deleteFromFs) ==
    Request("DELETE",
            "/api/platforms/" \o ToStr(rom.p_slug) \o "/roms/" \o ToStr(rom.id)
              \o "?filesystem=" \o ToStr(Bool(FALSE)),
            NoBody, "json")

deleteRomRequest(rom, deleteFromFs) ==
    Request("DELETE",
            "/api/platforms/" \o ToStr(rom.p_slug) \o "/roms/" \o ToStr(rom.id)
              \o "?filesystem=" \o ToStr(deleteFromFs),
            NoBody, "json")

searchRomIGDBRequest(searchTerm, searchBy, rom) ==
    Request("PUT",
            "/api/search/roms/igdb?search_term=" \o ToStr(searchTerm)
              \o "&search_by=" \o ToStr(searchBy),
            [k |-> "rom", v |-> rom], "json")

---------------------------------------------------------------------------
(* Promises and what the transport settles them with. *)

UndefinedResult == [ok |-> TRUE, status |-> 0, data |-> "", err |-> ""]

Pending == [state |-> "pending", value |-> UndefinedResult]

Fulfilled(v) == [state |-> "fulfilled", value |-> v]

Rejected(e) == [state |-> "rejected", value |-> e]

Settled(p) == p.state # "pending"

Payloads == {"blobA", "blobB"}

(* A 2xx response of the server. *)
Responses == {[ok |-> TRUE, status |-> 200, data |-> d, err |-> ""] : d \in Payloads}

(* A transport failure: no response at all, or a non-2xx status. *)
Failures ==
    {[ok |-> FALSE, status |-> 0, data |-> "", err |-> "ERR_NETWORK"],
     [ok |-> FALSE, status |-> 404, data |-> "", err |-> "ERR_BAD_REQUEST"]}

Outcomes == Responses \cup Failures

(* The promise axios settles for an outcome of the transport. *)
axiosSettle(o) == IF o.ok THEN Fulfilled(o) ELSE Rejected(o)

AsyncReturnCaught(p) ==
    IF p.state = "rejected" THEN Fulfilled(UndefinedResult) ELSE p

(* `return p` in an async function: the returned promise follows p. *)
AsyncReturn(p) == p

(* An async function that ends without a return statement. *)
AsyncNoReturn == Fulfilled(UndefinedResult)

---------------------------------------------------------------------------
(* The exported functions.  Each is one synchronous run of the function    *)
(* body: the request is handed to axios and a promise goes back.           *)

Init ==
    /\ calls = <<>>
    /\ network = <<>>
    /\ axiosP = <<>>
    /\ outerP = <<>>
    /\ microtasks = <<>>
    /\ arrivals = <<>>
    /\ saves = <<>>
    /\ objectURLs = {}
    /\ unhandled = <<>>

issueTwice(c, req) == <<[call |-> c, req |-> req], [call |-> c, req |-> req]>>

(* The one axios.get / patch / delete / put of a function body. *)
issue(c, req) == <<[call |-> c, req |-> req]>>

NoOptions ==
    [platform |-> Undefined, cursor |-> Undefined, size |-> Undefined,
     searchTerm |-> Undefined]

(* The arguments of a call, as the caller passed them. *)
Args(options, rom, a1, a2) ==
    [options |-> options, rom |-> rom, a1 |-> a1, a2 |-> a2]

(* returned: the body is `return axios...`; chained: it is `axios....then(cb)`. *)
Invoke(op, args, req, returned, chained) ==
    LET c == Len(calls) + 1 IN
    /\ calls' = Append(calls, [op |-> op, args |-> args, returned |-> returned,
                               chained |-> chained])
    /\ network' = network \o issue(c, req)
    /\ axiosP' = Append(axiosP, Pending)
    /\ outerP' = Append(outerP, IF returned THEN Pending ELSE AsyncNoReturn)
    /\ UNCHANGED <<microtasks, arrivals, saves, objectURLs, unhandled>>

fetchPlatformsApi ==
    Invoke("fetchPlatformsApi", Args(NoOptions, NoRom, Undefined, Undefined),
           fetchPlatformsRequest, TRUE, FALSE)

fetchRomsApi(options) ==
    Invoke("fetchRomsApi", Args(options, NoRom, Undefined, Undefined),
           fetchRomsRequest(options), TRUE, FALSE)

fetchRomApi(platform, rom) ==
    Invoke("fetchRomApi", Args(NoOptions, NoRom, platform, rom),
           fetchRomRequest(platform, rom), TRUE, FALSE)

downloadRomApiReturning(rom, files) ==
    Invoke("downloadRomApi", Args(NoOptions, rom, files, Undefined),
           downloadRomRequest(rom, files), TRUE, TRUE)

downloadRomApi(rom, files) ==
    Invoke("downloadRomApi", Args(NoOptions, rom, files, Undefined),
           downloadRomRequest(rom, files), FALSE, TRUE)

updateRomApi(rom, updatedRom) ==
    Invoke("updateRomApi", Args(NoOptions, rom, updatedRom.r_name, Undefined),
           updateRomRequest(rom, updatedRom), TRUE, FALSE)

deleteRomApi(rom, deleteFromFs) ==
    Invoke("deleteRomApi", Args(NoOptions, rom, deleteFromFs, Undefined),
           deleteRomRequest(rom, deleteFromFs), TRUE, FALSE)

searchRomIGDBApi(searchTerm, searchBy, rom) ==
    Invoke("searchRomIGDBApi", Args(NoOptions, rom, searchTerm, searchBy),
           searchRomIGDBRequest(searchTerm, searchBy, rom), TRUE, FALSE)

---------------------------------------------------------------------------
(* The transport and the event loop. *)

(* The transport settles the request of call c.  It runs as a task of the  *)
(* event loop, so only once the microtask queue has drained; the reaction  *)
(* registered on the axios promise is queued as a microtask.               *)
TransportSettles(c, o) ==
    /\ c \in 1..Len(calls)
    /\ axiosP[c].state = "pending"
    /\ microtasks = <<>>
    /\ axiosP' = [axiosP EXCEPT ![c] = axiosSettle(o)]
    /\ arrivals' = Append(arrivals, c)
    /\ microtasks' = Append(microtasks, c)
    /\ UNCHANGED <<calls, network, outerP, saves, objectURLs, unhandled>>

Blob(parts) == Join(parts)

(* window.URL.createObjectURL: a fresh URL naming the blob. *)
createObjectURL(c, blob) == [id |-> c, blob |-> blob]

urlsAfterRevoke(urls, u) == urls \ {u}

(* The object URLs once the callback has returned: nothing revokes u. *)
urlsAfterCallback(urls, u) == urls

closureRomShared(c) == calls[Len(calls)].args.rom

(* The rom the callback of call c closes over. *)
closureRom(c) == calls[c].args.rom

downloadNameNoExt(rom) == ToStr(rom.r_name)

(* a.download of the anchor. *)
downloadName(rom) == ToStr(rom.r_name) \o ".zip"

(* The .then callback of downloadRomApi, run with the response. *)
thenCallback(c, response) ==
    LET u == createObjectURL(c, Blob(<<response.data>>)) IN
    /\ objectURLs' = urlsAfterCallback(objectURLs \cup {u}, u)
    /\ saves' = Append(saves, [call |-> c, href |-> u.id, content |-> u.blob,
                               download |-> downloadName(closureRom(c))])

(* The promise `.then(cb)` returns, given the promise it was called on. *)
thenResult(p) == IF p.state = "fulfilled" THEN Fulfilled(UndefinedResult) ELSE p

(* The event loop runs the reaction at the head of the microtask queue. *)
RunMicrotask ==
    /\ microtasks # <<>>
    /\ LET c == Head(microtasks)
           p == axiosP[c]
           last == IF calls[c].chained THEN thenResult(p) ELSE p
       IN
       /\ microtasks' = Tail(microtasks)
       /\ IF calls[c].chained /\ p.state = "fulfilled"
          THEN thenCallback(c, p.value)
          ELSE UNCHANGED <<saves, objectURLs>>
       /\ IF calls[c].returned
          THEN /\ outerP' = [outerP EXCEPT ![c] = AsyncReturn(last)]
               /\ UNCHANGED unhandled
          ELSE /\ unhandled' = IF last.state = "rejected"
                               THEN Append(unhandled, c) ELSE unhandled
               /\ UNCHANGED outerP
    /\ UNCHANGED <<calls, network, axiosP, arrivals>>

---------------------------------------------------------------------------
(* The arguments callers pass. *)

rom1 == Rom(Str("nes"), Num(7), Str("Zelda"), Arr(<<"zelda.nes">>))

rom2 == Rom(Str("snes"), Num(42), Str("Metroid"), Arr(<<"a.sfc", "b.sfc">>))

Roms == {rom1, rom2}

Options(platforms, cursors, sizes, terms) ==
    [platform : platforms, cursor : cursors, size : sizes, searchTerm : terms]

NarrowOptions == Options({Str("nes")}, {Undefined}, {Undefined}, {Str("zelda")})

WideOptions ==
    Options({Str("snes")},
            {Undefined, Null, Str("c&size=1")},
            {Undefined, Num(0), Num(25)},
            {Undefined, Str(""), Str("super mario")})

NarrowFiles == {Undefined}

WideFiles ==
    {Undefined, Null, Str(""), Num(0), Bool(FALSE), Arr(<<>>),
     Str("a.sfc"), Arr(<<"zelda.nes", "b.sfc">>)}

ApiCall(limit, options, roms, downloads, files, flags) ==
    /\ Len(calls) < limit
    /\ \/ fetchPlatformsApi
       \/ \E o \in options : fetchRomsApi(o)
       \/ \E r \in roms : fetchRomApi(r.p_slug, r.id)
       \/ \E r \in downloads, f \in files : downloadRomApi(r, f)
       \/ \E r \in roms : updateRomApi(r, [r EXCEPT !.r_name = Str("X")])
       \/ \E r \in roms, d \in flags : deleteRomApi(r, Bool(d))
       \/ \E r \in roms : searchRomIGDBApi(r.r_name, Str("Name"), r)

Transport == \E c \in 1..Len(calls), o \in Outcomes : TransportSettles(c, o)

Next ==
    \/ ApiCall(MaxCalls, NarrowOptions, {rom2}, Roms, NarrowFiles, {TRUE})
    \/ Transport
    \/ RunMicrotask

Spec == Init /\ [][Next]_vars

(* The event loop always drains its microtask queue. *)
FairSpec == Spec /\ WF_vars(RunMicrotask)

NextWide ==
    \/ ApiCall(MaxWideCalls, WideOptions, Roms, Roms, WideFiles, BOOLEAN)
    \/ Transport
    \/ RunMicrotask

SpecWide == Init /\ [][NextWide]_vars

---------------------------------------------------------------------------
(* Vocabulary of the properties. *)

CallIds == 1..Len(calls)

Range(q) == {q[i] : i \in 1..Len(q)}

(* The reaction on the axios promise of call c has run. *)
Reacted(c) == Settled(axiosP[c]) /\ c \notin Range(microtasks)

RequestsOf(c) == {i \in 1..Len(network) : network[i].call = c}

TheRequest(c) == network[CHOOSE i \in RequestsOf(c) : TRUE].req

SavesOf(c) == {i \in 1..Len(saves) : saves[i].call = c}

IsDownload(c) == calls[c].op = "downloadRomApi"

PassThroughOps ==
    {"fetchPlatformsApi", "fetchRomsApi", "fetchRomApi", "updateRomApi",
     "deleteRomApi", "searchRomIGDBApi"}

---------------------------------------------------------------------------
(* C1: for the six functions that return the axios promise, a failed HTTP  *)
(* call never leaves the caller's promise fulfilled, and once the reaction *)
(* has run the caller's promise is rejected with that very failure.        *)
C1_FailurePropagates ==
    \A c \in CallIds :
        (calls[c].op \in PassThroughOps /\ axiosP[c].state = "rejected") =>
            /\ outerP[c].state # "fulfilled"
            /\ Reacted(c) =>
                   /\ outerP[c].state = "rejected"
                   /\ outerP[c].value = axiosP[c].value
                   /\ outerP[c].value \in Failures

C1_Witness ==
    \E c \in CallIds :
        /\ calls[c].op = "updateRomApi"
        /\ axiosP[c].state = "rejected"
        /\ Reacted(c)
        /\ outerP[c].state = "rejected"
        /\ outerP[c].value.err = "ERR_BAD_REQUEST"

(* C2: no function's returned promise is settled while its HTTP request is *)
(* still in flight.                                                        *)
C2_PendingUntilTransport ==
    \A c \in CallIds : Settled(outerP[c]) => Settled(axiosP[c])

---------------------------------------------------------------------------
TextOr(v, text) == IF v = Undefined THEN text ELSE ToStr(v)

(* C3: fetchRomsApi sends one GET to /api/platforms/{platform}/roms whose  *)
(* query string is cursor, size, search_term in that order, each the       *)
(* caller's value as text, an undefined field replaced by "", 60, "".      *)
C3_ListRomsQuery ==
    \A c \in CallIds :
        calls[c].op = "fetchRomsApi" =>
            LET o == calls[c].args.options IN
            /\ Cardinality(RequestsOf(c)) = 1
            /\ TheRequest(c).method = "GET"
            /\ TheRequest(c).url =
                   "/api/platforms/" \o ToStr(o.platform) \o "/roms"
                     \o "?cursor=" \o TextOr(o.cursor, "")
                     \o "&size=" \o TextOr(o.size, "60")
                     \o "&search_term=" \o TextOr(o.searchTerm, "")

C3_Witness ==
    \E c \in CallIds :
        /\ calls[c].op = "fetchRomsApi"
        /\ calls[c].args.options.cursor = Undefined
        /\ calls[c].args.options.size = Num(0)
        /\ calls[c].args.options.searchTerm = Str("")
        /\ TheRequest(c).url = "/api/platforms/snes/roms?cursor=&size=0&search_term="

(* C4: downloadRomApi sends rom.files when files is undefined and the      *)
(* caller's files for every explicit value, falsy ones included.           *)
C4_ExplicitFilesUsed ==
    \A c \in CallIds :
        IsDownload(c) =>
            LET rom == calls[c].args.rom
                files == calls[c].args.a1
            IN TheRequest(c).url =
                   "/api/platforms/" \o ToStr(rom.p_slug) \o "/roms/"
                     \o ToStr(rom.id) \o "/download?files="
                     \o (IF files = Undefined THEN ToStr(rom.files)
                         ELSE ToStr(files))

(* C5: deleteRomApi sends one DELETE to                                    *)
(* /api/platforms/{p_slug}/roms/{id}?filesystem={true|false} and its       *)
(* promise is fulfilled with the very response of the transport.           *)
C5_DeleteRequest ==
    \A c \in CallIds :
        calls[c].op = "deleteRomApi" =>
            LET rom == calls[c].args.rom
                flag == calls[c].args.a1
            IN
            /\ Cardinality(RequestsOf(c)) = 1
            /\ TheRequest(c).method = "DELETE"
            /\ TheRequest(c).url =
                   "/api/platforms/" \o ToStr(rom.p_slug) \o "/roms/"
                     \o ToStr(rom.id) \o "?filesystem="
                     \o (IF flag.b THEN "true" ELSE "false")
            /\ outerP[c].state = "fulfilled" => outerP[c] = axiosP[c]
            /\ (axiosP[c].state = "fulfilled" /\ Reacted(c)) =>
                   /\ outerP[c] = axiosP[c]
                   /\ outerP[c].value \in Responses

C5_Witness ==
    \E c \in CallIds :
        /\ calls[c].op = "deleteRomApi"
        /\ calls[c].args.rom = rom1
        /\ calls[c].args.a1 = Bool(TRUE)
        /\ TheRequest(c).url = "/api/platforms/nes/roms/7?filesystem=true"
        /\ outerP[c].state = "fulfilled"
        /\ outerP[c].value.data = "blobB"

---------------------------------------------------------------------------
(* C6: when the HTTP request of downloadRomApi fails, the caller's promise *)
(* is fulfilled with undefined, never rejected, and the call triggers no   *)
(* save and creates no object URL.                                         *)
C6_DownloadFailureInvisible ==
    \A c \in CallIds :
        (IsDownload(c) /\ axiosP[c].state = "rejected") =>
            /\ outerP[c] = Fulfilled(UndefinedResult)
            /\ SavesOf(c) = {}
            /\ \A u \in objectURLs : u.id # c

C6_Witness ==
    \E c \in CallIds :
        /\ IsDownload(c)
        /\ axiosP[c].state = "rejected"
        /\ Reacted(c)
        /\ c \in Range(unhandled)
        /\ outerP[c].state = "fulfilled"

SaveAfterSuccess ==
    \A c \in CallIds :
        /\ Cardinality(SavesOf(c)) <= 1
        /\ \A i \in SavesOf(c) :
               /\ IsDownload(c)
               /\ axiosP[c].state = "fulfilled"
               /\ saves[i].download = calls[c].args.rom.r_name.s \o ".zip"
               /\ saves[i].content = axiosP[c].value.data

Succeeded(c) ==
    c \in CallIds /\ IsDownload(c) /\ axiosP[c].state = "fulfilled"

(* C7: a call of downloadRomApi triggers at most one save, only once its   *)
(* own request has succeeded; the save is named <rom.r_name>.zip and holds *)
(* the payload of the response; a successful request leads to exactly one  *)
(* save.                                                                   *)
C7_SaveOnceAfterSuccess ==
    /\ []SaveAfterSuccess
    /\ \A c \in 1..MaxCalls :
           Succeeded(c) ~> (c \in CallIds /\ Cardinality(SavesOf(c)) = 1)

C7_Witness ==
    \E c \in CallIds :
        /\ IsDownload(c)
        /\ calls[c].args.rom = rom1
        /\ Cardinality(SavesOf(c)) = 1
        /\ \E i \in SavesOf(c) :
               saves[i].download = "Zelda.zip" /\ saves[i].content = "blobA"

(* C8: every call has put exactly one request on the network, failed calls *)
(* included: the requests sent are as many as the calls made.              *)
C8_OneRequestPerCall ==
    /\ Len(network) = Len(calls)
    /\ \A c \in CallIds : Cardinality(RequestsOf(c)) = 1
    /\ \A i \in 1..Len(network) : network[i].call \in CallIds

C8_Witness ==
    /\ Len(calls) = MaxCalls
    /\ Len(network) = MaxCalls
    /\ \E c \in CallIds : axiosP[c].state = "rejected" /\ Reacted(c)
    /\ \E c \in CallIds : IsDownload(c) /\ axiosP[c].state = "rejected" /\ Reacted(c)

DownloadsDone == {c \in CallIds : IsDownload(c) /\ axiosP[c].state = "fulfilled" /\ Reacted(c)}

OneUrlPerSuccess ==
    /\ Cardinality(objectURLs) = Cardinality(DownloadsDone)
    /\ \A c \in DownloadsDone : \E u \in objectURLs : u.id = c
    /\ microtasks = <<>> =>
           Cardinality(objectURLs) =
               Cardinality({c \in CallIds : IsDownload(c) /\ axiosP[c].state = "fulfilled"})

(* C9: the object URLs are never revoked: the set only grows, and it holds *)
(* one URL for each downloadRomApi request that succeeded and whose        *)
(* callback has run.                                                       *)
C9_ObjectUrlsOnlyGrow ==
    /\ []OneUrlPerSuccess
    /\ [][objectURLs \subseteq objectURLs']_vars

C9_Witness ==
    /\ Cardinality(objectURLs) = 2
    /\ Cardinality(DownloadsDone) = 2
    /\ microtasks = <<>>

SavedArrival(c) == IsDownload(c) /\ axiosP[c].state = "fulfilled" /\ Reacted(c)

(* C10: with several downloads in flight, each save carries the name of    *)
(* the rom of its own call and the payload of its own response, and the    *)
(* saves come in the order the responses arrived.                          *)
C10_SavesPairOwnCall ==
    /\ \A i \in 1..Len(saves) :
           LET c == saves[i].call IN
           /\ IsDownload(c)
           /\ saves[i].download = ToStr(calls[c].args.rom.r_name) \o ".zip"
           /\ saves[i].content = axiosP[c].value.data
    /\ [i \in 1..Len(saves) |-> saves[i].call] = SelectSeq(arrivals, SavedArrival)

C10_Witness ==
    /\ Len(saves) = 2
    /\ saves[1].call = 2
    /\ saves[2].call = 1
    /\ saves[1].download # saves[2].download
    /\ saves[1].content # saves[2].content
    /\ axiosP[1].state = "fulfilled"

=============================================================================
